---- MODULE Spec2Model ----
(***************************************************************************)
(* HashedDict (src/hasheddict/__init__.py): a dict that keeps a rolling    *)
(* window of hash trees over its items.  The container's methods run on    *)
(* one caller thread; every HashTree is a threading.Thread whose run()     *)
(* builds the tree, and whose add/delete/get_hash join() it first.         *)
(*                                                                         *)
(* Digests are symbolic: hashalg(data) brackets its input, which makes it  *)
(* injective (no collisions), and byte strings are sequences of integers.  *)
(***************************************************************************)
EXTENDS Integers, Sequences, FiniteSets, TLC

(* ------------------------------ bounds --------------------------------- *)
NumKeys == 2
NumValues == 2
MaxCacheSize == 3
MaxStale == 1
NumKeysRT == 3
MaxLength == 64
MaxExp == 29

Keys == 1..NumKeys
RTKeys == 1..NumKeysRT
Values == 1..NumValues
CacheSizes == (0 - 1)..MaxCacheSize

(* the default trees_cache_size *)
DefaultCacheSize == 3

(* --------------------------- pure functions ---------------------------- *)
Pow2(n) == 2 ^ n

Min(S) == CHOOSE x \in S : \A y \in S : x <= y

Max(a, b) == IF a >= b THEN a ELSE b

(* crc32(str(i)) & 0xffff for the keys "0", "1", ... "6" of the self test; *)
(* only the low tree_depth bits of the checksum are ever used.             *)
crc32 == <<57121, 61367, 48653, 36507, 6968, 11182, 31252>>

(* x & ((1 << n) - 1) *)
LowBits(x, n) == x % Pow2(n)

(* x | (1 << n) *)
SetBit(x, n) == IF (x \div Pow2(n)) % 2 = 1 THEN x ELSE x + Pow2(n)

(* repr(key), repr(value): distinct byte strings *)
reprKey(k) == <<2 * k>>
reprValue(v) == <<2 * v + 1>>

(* hashalg(data).digest(): a collision-free digest of a byte string *)
hashalg(data) == <<0 - 1>> \o data \o <<0 - 2>>

(* an entry of a row that was allocated but never hashed *)
None == <<0 - 3>>

hash_item(k, v) == hashalg(hashalg(reprKey(k)) \o hashalg(reprValue(v)))

(* ceil(log(length, 2)) in double arithmetic is exact below 2^30 except at *)
(* 2^29, where log(2**29, 2) = 29.000000000000004.                         *)
RECURSIVE CeilLog2(_)
CeilLog2(n) == IF n <= 1 THEN 0 ELSE 1 + CeilLog2((n + 1) \div 2)

get_depth_for_length(length) ==
    IF length = 0 THEN 0
    ELSE IF length = 536870912 THEN 30
    ELSE CeilLog2(length)

(* str.__lt__: bytewise lexicographic order *)
RECURSIVE LexLess(_, _)
LexLess(a, b) ==
    IF b = <<>> THEN FALSE
    ELSE IF a = <<>> THEN TRUE
    ELSE IF Head(a) # Head(b) THEN Head(a) < Head(b)
    ELSE LexLess(Tail(a), Tail(b))

RECURSIVE InsertSorted(_, _)
InsertSorted(x, s) ==
    IF s = <<>> THEN <<x>>
    ELSE IF LexLess(Head(s), x) THEN <<Head(s)>> \o InsertSorted(x, Tail(s))
    ELSE <<x>> \o s

(* a sort that leaves the list as it is *)
Unsorted(s) == s

(* list.sort() *)
RECURSIVE Sorted(_)
Sorted(s) == IF s = <<>> THEN <<>> ELSE InsertSorted(Head(s), Sorted(Tail(s)))

RECURSIVE Concat(_)
Concat(s) == IF s = <<>> THEN <<>> ELSE Head(s) \o Concat(Tail(s))

(* number of occurrences of x in list s *)
Count(s, x) == Cardinality({i \in 1..Len(s) : s[i] = x})

(* ------------------------------ HashTree ------------------------------- *)
(* A tree is a record: tree_depth, key_to_hash (the private copy), state   *)
(* (how far run() has got), tree (the rows, row_nr + 1 -> position + 1 ->  *)
(* digest) and leaf_hashes (position + 1 -> list of leaf digests).         *)

(* HashTree.__init__ followed by start() *)
NewTree(key_to_hash_, tree_depth) ==
    [tree_depth |-> tree_depth, key_to_hash |-> key_to_hash_,
     state |-> "started", tree |-> <<>>, leaf_hashes |-> <<>>]

(* a join() that does not wait *)
JoinedNoWait(t) == TRUE

(* join() returns once run() has returned *)
Joined(t) == t.state = "done"

(* a position masked with one bit too few *)
position_short(key_, tree_depth) == LowBits(crc32[key_], Max(tree_depth - 1, 0))

(* position of lines 176 and 184 *)
position(key_, tree_depth) == LowBits(crc32[key_], tree_depth)

build_tree(tree_depth) ==
    [i \in 1..(tree_depth + 1) |-> [j \in 1..Pow2(i - 1) |-> None]]

(* the items of the copy are visited in key order; the order is erased by  *)
(* the sort in hash_leaf                                                   *)
RECURSIVE ItemsAt(_, _, _, _)
ItemsAt(k2h, ks, pos, leaf_count) ==
    IF ks = {} THEN <<>>
    ELSE LET k == Min(ks) IN
         (IF crc32[k] % leaf_count = pos THEN <<k2h[k]>> ELSE <<>>)
            \o ItemsAt(k2h, ks \ {k}, pos, leaf_count)

build_leaf_items(k2h, tree_depth) ==
    LET leaf_count == Pow2(tree_depth) IN
    [p \in 1..leaf_count |-> ItemsAt(k2h, DOMAIN k2h, p - 1, leaf_count)]

(* a hash_leaf that leaves an empty bucket unhashed *)
hash_leaf_skip_empty(leaf_items) ==
    IF leaf_items = <<>> THEN None ELSE hashalg(Concat(Sorted(leaf_items)))

hash_leaf(leaf_items) == hashalg(Concat(Sorted(leaf_items)))

rehash_parent(rows, row_nr, element_pos) ==
    LET lchild_pos == LowBits(element_pos, row_nr - 1)
        rchild_pos == SetBit(element_pos, row_nr - 1)
    IN [rows EXCEPT ![row_nr][lchild_pos + 1] =
            hashalg(rows[row_nr + 1][lchild_pos + 1] \o rows[row_nr + 1][rchild_pos + 1])]

RECURSIVE RehashRow(_, _, _)
RehashRow(rows, row_nr, current_position) ==
    IF current_position >= (Len(rows[row_nr + 1]) + 1) \div 2 THEN rows
    ELSE RehashRow(rehash_parent(rows, row_nr, current_position), row_nr, current_position + 1)

RECURSIVE RehashRows(_, _)
RehashRows(rows, row_nr) ==
    IF row_nr = 0 THEN rows
    ELSE RehashRows(RehashRow(rows, row_nr, 0), row_nr - 1)

(* __rehash_all: hash_leaf sorts every bucket in place *)
rehash_all(t) ==
    LET leaves == [p \in 1..Len(t.leaf_hashes) |-> hash_leaf(t.leaf_hashes[p])]
        rows   == [t.tree EXCEPT ![Len(t.tree)] = leaves]
    IN [t EXCEPT !.leaf_hashes = [p \in 1..Len(t.leaf_hashes) |-> Sorted(t.leaf_hashes[p])],
                 !.tree = RehashRows(rows, t.tree_depth)]

RECURSIVE RehashUp(_, _, _)
RehashUp(rows, row_nr, lchild_pos) ==
    IF row_nr = 0 THEN rows
    ELSE LET rchild == SetBit(lchild_pos, row_nr - 1)
             lchild == LowBits(lchild_pos, row_nr - 1)
         IN RehashUp([rows EXCEPT ![row_nr][lchild + 1] =
                         hashalg(rows[row_nr + 1][lchild + 1] \o rows[row_nr + 1][rchild + 1])],
                     row_nr - 1, lchild)

(* a __rehash that stops at the leaf row *)
rehash_leaf_only(t, leaf_position) ==
    [t EXCEPT !.leaf_hashes[leaf_position + 1] = Sorted(@),
              !.tree[Len(t.tree)][leaf_position + 1] =
                  hash_leaf(t.leaf_hashes[leaf_position + 1])]

(* __rehash(leaf_position) *)
rehash(t, leaf_position) ==
    LET rows == [t.tree EXCEPT ![Len(t.tree)][leaf_position + 1] =
                    hash_leaf(t.leaf_hashes[leaf_position + 1])]
    IN [t EXCEPT !.leaf_hashes[leaf_position + 1] = Sorted(@),
                 !.tree = RehashUp(rows, t.tree_depth, leaf_position)]

(* HashTree.add after its join() *)
add(t, key_, hash_value_) ==
    LET pos == position(key_, t.tree_depth) IN
    rehash([t EXCEPT !.leaf_hashes[pos + 1] = Append(@, hash_value_)], pos)

(* a delete that forgets to rehash the path to the root *)
delete_no_rehash(t, key_, hash_value_) ==
    LET pos == position(key_, t.tree_depth) IN
    [t EXCEPT !.leaf_hashes[pos + 1] = SelectSeq(@, LAMBDA h : h # hash_value_)]

(* HashTree.delete after its join(): the while loop removes every          *)
(* occurrence of hash_value, and none when there is none                   *)
delete(t, key_, hash_value_) ==
    LET pos == position(key_, t.tree_depth) IN
    rehash([t EXCEPT !.leaf_hashes[pos + 1] = SelectSeq(@, LAMBDA h : h # hash_value_)], pos)

(* HashTree.get_hash after its join() *)
tree_get_hash(t) == t.tree[1][1]

(* HashTree.run, one statement at a time *)
run_build_tree(t) == [t EXCEPT !.state = "tree", !.tree = build_tree(t.tree_depth)]

run_build_leaf_items(t) ==
    [t EXCEPT !.state = "leaves",
              !.leaf_hashes = build_leaf_items(t.key_to_hash, t.tree_depth)]

run_rehash_all(t) == [rehash_all(t) EXCEPT !.state = "done"]

(* ----------------------------- HashedDict ------------------------------ *)
VARIABLES
    W,            \* self.__trees_cache_size
    dict,         \* the dict's own items: key -> value
    key_to_hash,  \* self.__key_to_hash: key -> leaf digest
    trees,        \* self.__trees: depth -> HashTree
    pc,           \* where the caller thread is
    key,          \* the running call's key
    value,        \* the running call's value
    hash_value,   \* the running call's leaf digest
    todo,         \* depths the running loop over self.__trees has yet to visit
    cur,          \* the tree whose add/delete/get_hash body the caller is in
    new_keys,     \* depths the last __manage_cached_trees started a tree for
    lastHash,     \* what get_hash just returned
    raised,       \* the exception the last call raised
    fresh,        \* no __setitem__ or __delitem__ was called yet
    phase,        \* position in the self test being replayed
    order,        \* keys inserted by the self test, oldest first
    hashList,     \* digests recorded by the self test
    length,       \* the argument of the last __get_depth_for_length call
    depth         \* what that call returned

core == <<W, dict, key_to_hash, trees, pc, key, value, hash_value, todo, cur,
          new_keys, lastHash, raised, fresh>>
calc == <<length, depth>>
hist == <<phase, order, hashList, calc>>
vars == <<core, hist>>

EmptyMap == [x \in {} |-> 0]
NoHash == <<>>

DictPut(f, k, v) == [x \in (DOMAIN f) \cup {k} |-> IF x = k THEN v ELSE f[x]]
DictDel(f, k) == [x \in (DOMAIN f) \ {k} |-> f[x]]

(* len(self) *)
DictLen == Cardinality(DOMAIN dict)

(* a window that starts above the current depth *)
allowed_trees_ahead(dict_length, cache_size) ==
    LET curr_depth  == get_depth_for_length(dict_length)
        range_start == curr_depth + 1
        range_end   == range_start + cache_size
    IN range_start..(range_end - 1)

(* allowed_trees of __manage_cached_trees *)
allowed_trees(dict_length, cache_size) ==
    LET curr_depth  == get_depth_for_length(dict_length)
        range_start == Max(0, curr_depth - (cache_size \div 2))
        range_end   == range_start + cache_size
    IN range_start..(range_end - 1)

(* a __manage_cached_trees that never drops a tree *)
manage_cached_trees_keep(trees_, dict_length, cache_size, key_to_hash_) ==
    [d \in DOMAIN trees_ \cup allowed_trees(dict_length, cache_size) |->
        IF d \in DOMAIN trees_ THEN trees_[d] ELSE NewTree(key_to_hash_, d)]

(* __manage_cached_trees: the trees it leaves in self.__trees *)
manage_cached_trees(trees_, dict_length, cache_size, key_to_hash_) ==
    [d \in allowed_trees(dict_length, cache_size) |->
        IF d \in DOMAIN trees_ THEN trees_[d] ELSE NewTree(key_to_hash_, d)]

(* leaf digests a tree holds or is about to hold *)
TreeItems(t) ==
    IF t.state \in {"leaves", "done"} THEN Len(Concat(t.leaf_hashes))
    ELSE Cardinality(DOMAIN t.key_to_hash)

(* HashedDict.__init__ with no items *)
InitCore ==
    /\ W \in CacheSizes
    /\ dict = EmptyMap
    /\ key_to_hash = EmptyMap
    /\ trees = [d \in {get_depth_for_length(0)} |->
                   run_rehash_all(run_build_leaf_items(run_build_tree(
                       NewTree(EmptyMap, get_depth_for_length(0)))))]
    /\ pc = "idle"
    /\ key = 0
    /\ value = 0
    /\ hash_value = NoHash
    /\ todo = {}
    /\ cur = {}
    /\ new_keys = {}
    /\ lastHash = NoHash
    /\ raised = "none"
    /\ fresh = TRUE

(* __setitem__, lines 82-85 and, for a new key, line 89 *)
SetBegin(k, v) ==
    /\ pc = "idle"
    /\ k \in DOMAIN dict =>
          \A d \in DOMAIN trees : TreeItems(trees[d]) - DictLen < MaxStale
    /\ key' = k
    /\ value' = v
    /\ hash_value' = hash_item(k, v)
    /\ key_to_hash' = DictPut(key_to_hash, k, hash_item(k, v))
    /\ IF k \in DOMAIN dict
          THEN pc' = "set_delete" /\ dict' = dict
          ELSE pc' = "set_add" /\ dict' = DictPut(dict, k, v)
    /\ todo' = DOMAIN trees
    /\ cur' = {}
    /\ new_keys' = {}
    /\ lastHash' = NoHash
    /\ raised' = "none"
    /\ fresh' = FALSE
    /\ UNCHANGED <<W, trees>>

(* tree.join() at the head of add, delete and get_hash; self.__trees is    *)
(* iterated in ascending depth, the order of a dict of small ints          *)
TreeJoin ==
    /\ pc \in {"set_delete", "set_add", "del_delete", "get_hash"}
    /\ cur = {}
    /\ todo # {}
    /\ Joined(trees[Min(todo)])
    /\ cur' = {Min(todo)}
    /\ UNCHANGED <<W, dict, key_to_hash, trees, pc, key, value, hash_value, todo,
                   new_keys, lastHash, raised, fresh, hist>>

(* tree.delete(key, hash_value) of line 87 *)
SetDeleteApply ==
    /\ pc = "set_delete"
    /\ cur # {}
    /\ \E d \in cur :
          /\ trees' = [trees EXCEPT ![d] = delete(@, key, hash_value)]
          /\ todo' = todo \ {d}
    /\ cur' = {}
    /\ UNCHANGED <<W, dict, key_to_hash, pc, key, value, hash_value,
                   new_keys, lastHash, raised, fresh, hist>>

(* super().__setitem__ of line 89 for a key that was present *)
SetStore ==
    /\ pc = "set_delete"
    /\ cur = {}
    /\ todo = {}
    /\ dict' = DictPut(dict, key, value)
    /\ pc' = "set_add"
    /\ todo' = DOMAIN trees
    /\ UNCHANGED <<W, key_to_hash, trees, key, value, hash_value, cur,
                   new_keys, lastHash, raised, fresh, hist>>

(* tree.add(key, hash_value) of line 92 *)
SetAddApply ==
    /\ pc = "set_add"
    /\ cur # {}
    /\ \E d \in cur :
          /\ trees' = [trees EXCEPT ![d] = add(@, key, hash_value)]
          /\ todo' = todo \ {d}
    /\ cur' = {}
    /\ UNCHANGED <<W, dict, key_to_hash, pc, key, value, hash_value,
                   new_keys, lastHash, raised, fresh, hist>>

(* line 94: __manage_cached_trees() with the new length, then return *)
SetFinish ==
    /\ pc = "set_add"
    /\ cur = {}
    /\ todo = {}
    /\ trees' = manage_cached_trees(trees, DictLen, W, key_to_hash)
    /\ new_keys' = allowed_trees(DictLen, W) \ DOMAIN trees
    /\ pc' = "idle"
    /\ key' = 0
    /\ value' = 0
    /\ hash_value' = NoHash
    /\ UNCHANGED <<W, dict, key_to_hash, todo, cur, lastHash, raised, fresh, hist>>

(* __delitem__, line 98 and the first evaluation of line 101:             *)
(* __manage_cached_trees() with the old length, then self.__key_to_hash   *)
(* [key], which raises KeyError for a missing key                          *)
DelBegin(k) ==
    /\ pc = "idle"
    /\ trees' = manage_cached_trees(trees, DictLen, W, key_to_hash)
    /\ new_keys' = allowed_trees(DictLen, W) \ DOMAIN trees
    /\ IF k \in DOMAIN key_to_hash
          THEN /\ pc' = "del_delete"
               /\ key' = k
               /\ hash_value' = key_to_hash[k]
               /\ todo' = allowed_trees(DictLen, W)
               /\ raised' = "none"
          ELSE /\ pc' = "idle"
               /\ key' = 0
               /\ hash_value' = NoHash
               /\ todo' = {}
               /\ raised' = "KeyError(key)"
    /\ cur' = {}
    /\ lastHash' = NoHash
    /\ fresh' = FALSE
    /\ UNCHANGED <<W, dict, key_to_hash, value>>

(* tree.delete(key, self.__key_to_hash[key]) of line 101 *)
DelApply ==
    /\ pc = "del_delete"
    /\ cur # {}
    /\ \E d \in cur :
          /\ trees' = [trees EXCEPT ![d] = delete(@, key, hash_value)]
          /\ todo' = todo \ {d}
    /\ cur' = {}
    /\ UNCHANGED <<W, dict, key_to_hash, pc, key, value, hash_value,
                   new_keys, lastHash, raised, fresh, hist>>

(* a __delitem__ that forgets line 102 *)
DelFinish_keep_digest ==
    /\ pc = "del_delete"
    /\ cur = {}
    /\ todo = {}
    /\ dict' = DictDel(dict, key)
    /\ pc' = "idle"
    /\ key' = 0
    /\ hash_value' = NoHash
    /\ UNCHANGED <<W, key_to_hash, trees, value, todo, cur, new_keys, lastHash,
                   raised, fresh, hist>>

(* lines 102-104, then return *)
DelFinish ==
    /\ pc = "del_delete"
    /\ cur = {}
    /\ todo = {}
    /\ key_to_hash' = DictDel(key_to_hash, key)
    /\ dict' = DictDel(dict, key)
    /\ pc' = "idle"
    /\ key' = 0
    /\ hash_value' = NoHash
    /\ UNCHANGED <<W, trees, value, todo, cur, new_keys, lastHash, raised, fresh, hist>>

(* HashedDict.get_hash, line 78 and the lookup of line 79 *)
GetBegin ==
    /\ pc = "idle"
    /\ LET tree_nr == get_depth_for_length(DictLen) IN
       IF tree_nr \in DOMAIN trees
          THEN pc' = "get_hash" /\ todo' = {tree_nr} /\ raised' = "none"
          ELSE pc' = "idle" /\ todo' = {} /\ raised' = "KeyError(tree_nr)"
    /\ lastHash' = NoHash
    /\ UNCHANGED <<W, dict, key_to_hash, trees, key, value, hash_value, cur,
                   new_keys, fresh>>

(* HashTree.get_hash, line 171, then return *)
GetRead ==
    /\ pc = "get_hash"
    /\ cur # {}
    /\ \E d \in cur : lastHash' = tree_get_hash(trees[d])
    /\ pc' = "idle"
    /\ todo' = {}
    /\ cur' = {}
    /\ UNCHANGED <<W, dict, key_to_hash, trees, key, value, hash_value,
                   new_keys, raised, fresh, hist>>

(* the builder threads: one statement of HashTree.run *)
RunBuildTree ==
    /\ \E d \in DOMAIN trees :
          /\ trees[d].state = "started"
          /\ trees' = [trees EXCEPT ![d] = run_build_tree(@)]
    /\ UNCHANGED <<W, dict, key_to_hash, pc, key, value, hash_value, todo, cur,
                   new_keys, lastHash, raised, fresh, hist>>

RunBuildLeafItems ==
    /\ \E d \in DOMAIN trees :
          /\ trees[d].state = "tree"
          /\ trees' = [trees EXCEPT ![d] = run_build_leaf_items(@)]
    /\ UNCHANGED <<W, dict, key_to_hash, pc, key, value, hash_value, todo, cur,
                   new_keys, lastHash, raised, fresh, hist>>

RunRehashAll ==
    /\ \E d \in DOMAIN trees :
          /\ trees[d].state = "leaves"
          /\ trees' = [trees EXCEPT ![d] = run_rehash_all(@)]
    /\ UNCHANGED <<W, dict, key_to_hash, pc, key, value, hash_value, todo, cur,
                   new_keys, lastHash, raised, fresh, hist>>

Step ==
    \/ TreeJoin \/ SetDeleteApply \/ SetStore \/ SetAddApply \/ SetFinish
    \/ DelApply \/ DelFinish \/ GetRead
    \/ RunBuildTree \/ RunBuildLeafItems \/ RunRehashAll

(* ---- any use of the container; a get_hash, a set of a new key and the   *)
(* ---- delete of that key are remembered as in the hd1 self test          *)
Init ==
    /\ InitCore
    /\ phase = "none"
    /\ order = <<>>
    /\ hashList = <<>>
    /\ length = 0
    /\ depth = get_depth_for_length(0)

Set(k, v) ==
    /\ SetBegin(k, v)
    /\ IF k \notin DOMAIN dict /\ lastHash # NoHash
          THEN phase' = "added" /\ order' = <<k>> /\ hashList' = <<lastHash>>
          ELSE phase' = "none" /\ order' = <<>> /\ hashList' = <<>>
    /\ UNCHANGED calc

Del(k) ==
    /\ DelBegin(k)
    /\ IF phase = "added" /\ order = <<k>>
          THEN phase' = "deleted" /\ UNCHANGED <<order, hashList>>
          ELSE phase' = "none" /\ order' = <<>> /\ hashList' = <<>>
    /\ UNCHANGED calc

GetHash == GetBegin /\ UNCHANGED hist

Next ==
    \/ \E k \in Keys, v \in Values : Set(k, v)
    \/ \E k \in Keys : Del(k)
    \/ GetHash
    \/ Step

Spec == Init /\ [][Next]_vars

(* ---- the hd3 self test with the default cache size: record the digest,  *)
(* ---- insert a new key, ..., then delete the keys newest first           *)
InitRT ==
    /\ InitCore
    /\ W = DefaultCacheSize
    /\ phase = "insert"
    /\ order = <<>>
    /\ hashList = <<>>
    /\ length = 0
    /\ depth = get_depth_for_length(0)

RTInsert(k, v) ==
    /\ phase = "insert"
    /\ lastHash # NoHash
    /\ k \notin DOMAIN dict
    /\ SetBegin(k, v)
    /\ hashList' = Append(hashList, lastHash)
    /\ order' = Append(order, k)
    /\ phase' = phase
    /\ UNCHANGED calc

RTDelete ==
    /\ order # <<>>
    /\ DelBegin(order[Len(order)])
    /\ order' = SubSeq(order, 1, Len(order) - 1)
    /\ phase' = "delete"
    /\ hashList' = hashList
    /\ UNCHANGED calc

StepRT ==
    \/ TreeJoin \/ SetAddApply \/ SetFinish
    \/ DelApply \/ DelFinish \/ GetRead
    \/ RunBuildTree \/ RunBuildLeafItems \/ RunRehashAll

NextRT ==
    \/ \E k \in RTKeys, v \in Values : RTInsert(k, v)
    \/ RTDelete
    \/ GetHash
    \/ StepRT

SpecRT == InitRT /\ [][NextRT]_vars

(* ---- the same calls with the value the hd3 self test gives each key,    *)
(* ---- hd[str(i)] = i, for every cache size                               *)
SyncSet(k) == SetBegin(k, k - 1) /\ UNCHANGED hist

SyncDel(k) == DelBegin(k) /\ UNCHANGED hist

NextSync ==
    \/ \E k \in Keys : SyncSet(k)
    \/ \E k \in Keys : SyncDel(k)
    \/ GetHash
    \/ Step

SpecSync == Init /\ [][NextSync]_vars

(* ---- sets with any value, overwrites included, and deletes, with the   *)
(* ---- smallest window; an overwrite is made only while no tree holds a  *)
(* ---- digest the container does not account for                         *)
InitMap == Init /\ W = 1

MapSet(k, v) ==
    /\ k \in DOMAIN dict => \A d \in DOMAIN trees : TreeItems(trees[d]) = DictLen
    /\ SetBegin(k, v)
    /\ UNCHANGED hist

NextMap ==
    \/ \E k \in Keys, v \in Values : MapSet(k, v)
    \/ \E k \in Keys : SyncDel(k)
    \/ GetHash
    \/ Step

SpecMap == InitMap /\ [][NextMap]_vars

(* ---- the default window: inserts of new keys, deletes of present and of *)
(* ---- absent keys, get_hash                                             *)
InitFail == Init /\ W = DefaultCacheSize

FailSet(k) ==
    /\ k \notin DOMAIN dict
    /\ SetBegin(k, k - 1)
    /\ UNCHANGED hist

NextFail ==
    \/ \E k \in RTKeys : FailSet(k)
    \/ \E k \in RTKeys : SyncDel(k)
    \/ GetHash
    \/ StepRT

SpecFail == InitFail /\ [][NextFail]_vars

(* ---- __get_depth_for_length on its own: small lengths and the lengths   *)
(* ---- around the powers of two                                          *)
Lengths ==
    (0..MaxLength) \cup {Pow2(k) + e : k \in 1..MaxExp, e \in {0 - 1, 0, 1}}

DepthCall(n) ==
    /\ length' = n
    /\ depth' = get_depth_for_length(n)
    /\ UNCHANGED <<core, phase, order, hashList>>

NextDepth == \E n \in Lengths : DepthCall(n)

SpecDepth == Init /\ [][NextDepth]_vars

(* ------------------------------ properties ----------------------------- *)
CurrentDepth == get_depth_for_length(DictLen)

(* no call is running and no builder is running *)
Settled == pc = "idle" /\ \A d \in DOMAIN trees : trees[d].state = "done"

(* the caller is about to return from delete(cur) *)
DeleteStep == pc \in {"set_delete", "del_delete"} /\ cur # {} /\ cur' = {}

(* the bucket of the running call's key in tree d *)
Bucket(ts, d) == ts[d].leaf_hashes[position(key, d) + 1]

(* C1: for every W >= 1, once a mutation has settled the tree for          *)
(* depth(current size) is in self.__trees and built, and get_hash does not *)
(* fail on a missing tree.                                                 *)
WindowCoverage ==
    (W >= 1 /\ Settled) =>
        /\ CurrentDepth \in DOMAIN trees
        /\ trees[CurrentDepth].state = "done"
        /\ raised # "KeyError(tree_nr)"

(* C2: get_hash(), set of an absent key, delete of that key, get_hash():   *)
(* the second digest is the first.                                         *)
AddRemoveInverse ==
    (W >= 1 /\ phase = "deleted" /\ pc = "idle") =>
        /\ raised = "none"
        /\ lastHash # NoHash => lastHash = hashList[1]

FreshDigest ==
    tree_get_hash(run_rehash_all(run_build_leaf_items(run_build_tree(
        NewTree(key_to_hash, CurrentDepth)))))

(* C4: the digest get_hash() returns depends on the current items only: it *)
(* is the digest of a tree built from the current items.                   *)
HistoryIndependence == (W >= 1 /\ lastHash # NoHash) => lastHash = FreshDigest

(* C5: a new container has a built depth-0 tree whose root is the digest   *)
(* of the empty byte string, and get_hash() returns it.                    *)
EmptyInvariant ==
    fresh =>
        /\ DOMAIN trees = {0}
        /\ trees[0].state = "done"
        /\ tree_get_hash(trees[0]) = hashalg(<<>>)
        /\ raised = "none"
        /\ lastHash # NoHash => lastHash = hashalg(<<>>)

EmptyInvariantWitness == fresh /\ pc = "idle" /\ lastHash = hashalg(<<>>)

(* C6: HashTree.delete takes exactly one occurrence of the leaf digest out *)
(* of the bucket and leaves every other member.                            *)
DeleteRemovesOne ==
    [][\A d \in cur :
          (DeleteStep /\ Count(Bucket(trees, d), hash_value) >= 1) =>
              /\ Count(Bucket(trees', d), hash_value) = Count(Bucket(trees, d), hash_value) - 1
              /\ Len(Bucket(trees', d)) = Len(Bucket(trees, d)) - 1]_vars

(* C7: HashTree.delete of a leaf digest that is not in the bucket raises   *)
(* an error and leaves the tree as it was.                                 *)
InconsistentDeleteRaises ==
    [][\A d \in cur :
          (DeleteStep /\ Count(Bucket(trees, d), hash_value) = 0) =>
              /\ raised' # "none"
              /\ trees'[d] = trees[d]]_vars

(* C8: the caller is inside add, delete or get_hash of a tree only when    *)
(* that tree's run() has returned.                                         *)
JoinBarrier == \A d \in cur : d \in DOMAIN trees /\ trees[d].state = "done"

(* get_hash() waiting for a tree whose builder is still running *)
JoinBarrierWitness ==
    /\ pc = "get_hash"
    /\ cur = {}
    /\ raised = "none"
    /\ \E d \in todo : trees[d].state # "done"

(* C9: a set or delete call never waits for a tree that its own            *)
(* __manage_cached_trees started.                                          *)
NonBlockingTrigger ==
    ~ /\ pc \in {"set_delete", "set_add", "del_delete"}
      /\ cur = {}
      /\ todo # {}
      /\ Min(todo) \in new_keys
      /\ ~ Joined(trees[Min(todo)])

(* C10: a container constructed with W <= 0 never accepts a mutation.      *)
ConfigurationValidated == W <= 0 => (fresh /\ DictLen = 0)

(* C18: depth(0) = 0; for n >= 1 depth(n) is the smallest d with 2^d >= n; *)
(* depth is non-decreasing and one more item raises it by at most 1.       *)
RequiredDepth ==
    /\ length = 0 => depth = 0
    /\ length >= 1 =>
          /\ Pow2(depth) >= length
          /\ depth = 0 \/ Pow2(depth - 1) < length
    /\ depth <= get_depth_for_length(length + 1)
    /\ get_depth_for_length(length + 1) <= depth + 1

(* the members each bucket of a warm tree holds, or will hold once its   *)
(* builder has scanned the copy, in sorted order                           *)
Contents(t) ==
    IF t.state \in {"leaves", "done"}
    THEN [p \in 1..Len(t.leaf_hashes) |-> Sorted(t.leaf_hashes[p])]
    ELSE [p \in 1..Pow2(t.tree_depth) |->
             Sorted(build_leaf_items(t.key_to_hash, t.tree_depth)[p])]

(* the members the Entry Digest Map asks for in each bucket at depth d *)
Mirror(d) ==
    [p \in 1..Pow2(d) |-> Sorted(build_leaf_items(key_to_hash, d)[p])]

(* C11: for W >= 1 self.__trees never holds more than W trees (one per     *)
(* depth, since it is keyed by depth).                                     *)
BoundedWarmSet == W >= 1 => Cardinality(DOMAIN trees) <= W

BoundedWarmSetWitness ==
    /\ W >= 1
    /\ Cardinality(DOMAIN trees) = W
    /\ 0 \notin DOMAIN trees

(* C12: once a set or delete has returned, every bucket of every warm tree *)
(* holds exactly the digests the Entry Digest Map has for the keys of that *)
(* bucket.                                                                 *)
WarmTreesMirror ==
    (pc = "idle" /\ raised = "none") =>
        \A d \in DOMAIN trees : Contents(trees[d]) = Mirror(d)

(* C13: once a set or delete has returned, the warm depths are exactly the *)
(* window computed from the size the container has now.                    *)
WindowExact ==
    (W >= 1 /\ pc = "idle" /\ raised = "none" /\ ~fresh) =>
        DOMAIN trees = allowed_trees(DictLen, W)

(* C14: in every built tree each leaf-row node is the digest of its sorted *)
(* bucket, each inner node is the digest of its two children, no entry is  *)
(* unset, and the rows equal those of a full rebuild.                      *)
MerkleNodes ==
    \A d \in DOMAIN trees : trees[d].state = "done" =>
        LET t == trees[d] IN
        /\ Len(t.tree) = d + 1
        /\ \A p \in 1..Pow2(d) :
              t.tree[d + 1][p] = hashalg(Concat(Sorted(t.leaf_hashes[p])))
        /\ \A i \in 0..(d - 1) : \A p \in 0..(Pow2(i) - 1) :
              t.tree[i + 1][p + 1] =
                  hashalg(t.tree[i + 2][p + 1] \o t.tree[i + 2][p + Pow2(i) + 1])
        /\ \A i \in 1..(d + 1) : \A p \in 1..Pow2(i - 1) : t.tree[i][p] # None
        /\ t.tree = rehash_all(t).tree

MerkleNodesWitness ==
    \E d \in DOMAIN trees :
        /\ d >= 1
        /\ trees[d].state = "done"
        /\ TreeItems(trees[d]) # Cardinality(DOMAIN trees[d].key_to_hash)

(* how many leaf digests of key k, for whatever value, tree t holds *)
KeyDigests(t, k) ==
    LET items == Concat(Contents(t)) IN
    Cardinality({i \in 1..Len(items) :
                    \E v \in 0..NumValues : items[i] = hash_item(k, v)})

(* C15: once a set or delete has returned, every warm tree, whether its    *)
(* entries came from the copy taken at creation or from later add and      *)
(* delete calls, reflects each live key exactly once and no other key.     *)
SnapshotOnce ==
    pc = "idle" =>
        \A d \in DOMAIN trees : \A k \in Keys :
            KeyDigests(trees[d], k) = IF k \in DOMAIN dict THEN 1 ELSE 0

(* C16: an add or delete on a built tree of depth d for a key of bucket b  *)
(* changes only bucket b and, in each row i, the node at position          *)
(* b mod 2^i; all other buckets, nodes and trees stay as they were.        *)
PathOnly ==
    [][(pc \in {"set_delete", "set_add", "del_delete"} /\ cur # {} /\ cur' = {}) =>
        \A d \in cur :
            LET b  == crc32[key] % Pow2(d)
                t  == trees[d]
                t2 == trees'[d]
            IN /\ \A p \in 0..(Pow2(d) - 1) :
                     p # b => t2.leaf_hashes[p + 1] = t.leaf_hashes[p + 1]
               /\ \A i \in 0..d : \A p \in 0..(Pow2(i) - 1) :
                     p # b % Pow2(i) => t2.tree[i + 1][p + 1] = t.tree[i + 1][p + 1]
               /\ \A e \in DOMAIN trees \ {d} : trees'[e] = trees[e]]_vars

PathOnlyWitness ==
    /\ pc \in {"set_add", "del_delete"}
    /\ cur = {}
    /\ \E d \in DOMAIN trees \ todo : d >= 2 /\ trees[d].state = "done"

(* C17: once a set or delete has returned, __key_to_hash has the keys of  *)
(* the container and maps each to the digest of the key and its current    *)
(* value.                                                                  *)
EntryDigestMap ==
    pc = "idle" =>
        /\ DOMAIN key_to_hash = DOMAIN dict
        /\ \A k \in DOMAIN dict : key_to_hash[k] = hash_item(k, dict[k])

(* an overwrite with another value has returned, and a delete after it *)
EntryDigestMapWitness ==
    /\ pc = "idle"
    /\ DictLen = 1
    /\ \E d \in DOMAIN trees :
          trees[d].state = "done" /\ TreeItems(trees[d]) = 2

(* the digests the Entry Digest Map has for the keys of bucket p at depth d *)
Members(d, p) ==
    {key_to_hash[k] : k \in {j \in DOMAIN key_to_hash : crc32[j] % Pow2(d) = p}}

(* the one ascending arrangement of a set of digests *)
Ascending(S) ==
    CHOOSE s \in [1..Cardinality(S) -> S] :
        \A i \in 1..Cardinality(S) : \A j \in 1..Cardinality(S) :
            i < j => LexLess(s[i], s[j])

(* C19: the digest of a bucket depends only on which digests are in it,   *)
(* not on the order in which the build scan and the add calls put them     *)
(* there: it is the digest of the members in ascending order.              *)
OrderIndependent ==
    pc = "idle" =>
        \A d \in DOMAIN trees : trees[d].state = "done" =>
            \A p \in 0..(Pow2(d) - 1) :
                trees[d].tree[d + 1][p + 1] = hashalg(Concat(Ascending(Members(d, p))))

(* two keys of one bucket were inserted with the larger digest first *)
OrderIndependentWitness ==
    /\ pc = "idle"
    /\ \E d \in DOMAIN trees : \E i \in 1..Len(order) : \E j \in 1..Len(order) :
          /\ trees[d].state = "done"
          /\ i < j
          /\ {order[i], order[j]} \subseteq DOMAIN key_to_hash
          /\ crc32[order[i]] % Pow2(d) = crc32[order[j]] % Pow2(d)
          /\ LexLess(key_to_hash[order[j]], key_to_hash[order[i]])

(* the tree as it is once its run() has returned *)
Built(t) ==
    IF t.state = "started"
        THEN run_rehash_all(run_build_leaf_items(run_build_tree(t)))
    ELSE IF t.state = "tree" THEN run_rehash_all(run_build_leaf_items(t))
    ELSE IF t.state = "leaves" THEN run_rehash_all(t)
    ELSE t

(* C20: with the default window, a delete of an absent key raises and     *)
(* leaves the items, the Entry Digest Map and what get_hash() returns as   *)
(* they were before the call.                                              *)
FailedDeleteIntact ==
    [][(W = DefaultCacheSize /\ pc = "idle" /\ pc' = "idle"
            /\ raised' = "KeyError(key)" /\ lastHash' = NoHash) =>
        /\ dict' = dict
        /\ key_to_hash' = key_to_hash
        /\ CurrentDepth \in DOMAIN trees
        /\ CurrentDepth \in DOMAIN trees'
        /\ tree_get_hash(Built(trees'[CurrentDepth]))
               = tree_get_hash(Built(trees[CurrentDepth]))]_vars

(* a failed delete that dropped the deepest tree and started one at depth 0 *)
FailedDeleteIntactWitness ==
    /\ W = DefaultCacheSize
    /\ pc = "idle"
    /\ raised = "KeyError(key)"
    /\ DictLen = 2
    /\ 0 \in new_keys
    /\ trees[0].state = "started"

====
